---- MODULE Spec2Model ----
(***************************************************************************)
(* odecast: symbolic variables and derivative references (symbols.py),     *)
(* the IVP validator (validate.py) and the solve entry point (api.py).     *)
(*                                                                         *)
(* Python objects live in two heaps, one per class; an object's identity   *)
(* is its index in the heap of its class.  A reference is a record         *)
(* [cls, id].  A dict is the sequence of its <<key, value>> entries in     *)
(* insertion order, which is the order Python iterates it in.              *)
(***************************************************************************)
EXTENDS Integers, Sequences, FiniteSets, TLC

VARIABLES
  variables,    \* heap of Variable objects: [name, intent_order, _derivatives]
  derivatives,  \* heap of Derivative objects: [variable, order]
  orders,       \* the caller's order map, Dict[Variable, int]
  ivp,          \* the caller's IVP mapping, Dict[Variable | Derivative, float]
  eqs,          \* the caller's equation list (solve's first argument)
  op,           \* the operation that ran last
  result,       \* what it returned or raised
  stages,       \* the pipeline stages the last solve call completed, in order
  expressions,  \* heap of Expression objects: [operator, left, right]
  args,         \* the arguments the last operation was called with
  calls,        \* the solve calls in progress, one per thread
  integrator,   \* the integrator's step loop: [t, tf, h, status]
  arrays,       \* heap of the numpy arrays and dicts of the caller: their contents
  solutions     \* heap of Solution objects: [t, _y_values], references into arrays

vars == <<variables, derivatives, orders, ivp, eqs, op, result, stages,
          expressions, args, calls, integrator, arrays, solutions>>

----------------------------------------------------------------------------
(* Bounds of the model. *)

MaxOrder == 2
MaxIvp == 3
MaxVars == 2
MaxDerivs == 2

(* Inputs the operations are called with. *)
Names == {"x", "y"}
Values == {1, 2}
Levels == {-1, 0, 1, 2}
Orders == 0 .. MaxOrder

(* Optional[int]: None is the empty tuple, an int k is <<k>>. *)
None == <<>>
Some(k) == <<k>>

(* The arguments of an operation that takes none worth recording. *)
NoArgs == <<>>

(* No integration in progress. *)
NoIntegrator == <<>>

----------------------------------------------------------------------------
(* References and identity. *)

VarRef(i) == [cls |-> "Variable", id |-> i]
DerivRef(j) == [cls |-> "Derivative", id |-> j]
StrKey == [cls |-> "str", id |-> 0]

VarRefs == {VarRef(i) : i \in DOMAIN variables}
DerivRefs == {DerivRef(j) : j \in DOMAIN derivatives}

\* id(obj): the address of the object, distinct for distinct live objects.
PyId(r) ==
  IF r.cls = "Variable" THEN 3 * r.id
  ELSE IF r.cls = "Derivative" THEN 3 * r.id + 1
  ELSE 2

\* a is b
Is(a, b) == a.cls = b.cls /\ a.id = b.id

\* hash(n) of a small int: n itself, except that -1 is reserved by CPython.
IntHash(n) == IF n = -1 THEN -2 ELSE n

\* hash of a tuple of two items: a function of the two item hashes only.
TupleHash(a, b) == (a * 31 + b) % 1024

----------------------------------------------------------------------------
(* symbols.py: Variable *)

\* Variable.__init__
Variable__init__(name, order) ==
  [name |-> name, intent_order |-> order, _derivatives |-> <<>>]

\* Variable.__hash__
Variable__hash__(self) == PyId(self)

Variable__eq__ByName(self, other) ==
  other.cls = "Variable" /\ variables[self.id].name = variables[other.id].name

\* Variable.__eq__
Variable__eq__(self, other) == Is(self, other)

(* symbols.py: Derivative *)

\* Derivative.__init__
Derivative__init__(variable, order) == [variable |-> variable, order |-> order]

Derivative__hash__ById(self) ==
  TupleHash(IntHash(PyId(self)), IntHash(derivatives[self.id].order))

\* Derivative.__hash__
Derivative__hash__(self) ==
  TupleHash(IntHash(PyId(VarRef(derivatives[self.id].variable))),
            IntHash(derivatives[self.id].order))

\* Derivative.__eq__
Derivative__eq__(self, other) ==
  /\ other.cls = "Derivative"
  /\ Is(VarRef(derivatives[self.id].variable), VarRef(derivatives[other.id].variable))
  /\ derivatives[self.id].order = derivatives[other.id].order

\* hash(obj), by the class of obj
PyHash(r) ==
  IF r.cls = "Variable" THEN Variable__hash__(r)
  ELSE IF r.cls = "Derivative" THEN Derivative__hash__(r)
  ELSE 7

\* a == b, by the class of a (neither __eq__ returns NotImplemented)
PyEq(a, b) ==
  IF a.cls = "Variable" THEN Variable__eq__(a, b)
  ELSE IF a.cls = "Derivative" THEN Derivative__eq__(a, b)
  ELSE Is(a, b)

----------------------------------------------------------------------------
(* Python dict, as the sequence of its entries. *)

\* Whether a stored key and a probe are the same dict key.
KeyMatch(stored, probe) ==
  Is(stored, probe) \/ (PyHash(stored) = PyHash(probe) /\ PyEq(probe, stored))

\* The index of the entry of d that key addresses, 0 when there is none.
DictIndex(d, key) ==
  IF \E i \in DOMAIN d : KeyMatch(d[i][1], key)
  THEN CHOOSE i \in DOMAIN d : KeyMatch(d[i][1], key)
  ELSE 0

\* d[key] = value: an existing entry keeps its key object and its place.
DictSetItem(d, key, value) ==
  IF DictIndex(d, key) = 0 THEN Append(d, <<key, value>>)
  ELSE [d EXCEPT ![DictIndex(d, key)] = <<d[DictIndex(d, key)][1], value>>]

\* Dicts with int keys and with (Variable, int) keys.
IntDictSetItem(d, key, value) ==
  IF \E i \in DOMAIN d : d[i][1] = key
  THEN [i \in DOMAIN d |-> IF d[i][1] = key THEN <<key, value>> ELSE d[i]]
  ELSE Append(d, <<key, value>>)

IntDictHas(d, key) == \E i \in DOMAIN d : d[i][1] = key

IntDictGet(d, key) == d[CHOOSE i \in DOMAIN d : d[i][1] = key][2]

\* Keys <<v, level>> of two (Variable, int) tuples are the same dict key.
PairKeyMatch(stored, probe) ==
  /\ TupleHash(PyHash(stored[1]), IntHash(stored[2]))
       = TupleHash(PyHash(probe[1]), IntHash(probe[2]))
  /\ (Is(stored[1], probe[1]) \/ PyEq(probe[1], stored[1]))
  /\ stored[2] = probe[2]

PairDictSetItem(d, key, value) ==
  IF \E i \in DOMAIN d : PairKeyMatch(d[i][1], key)
  THEN [i \in DOMAIN d |->
          IF PairKeyMatch(d[i][1], key) THEN <<d[i][1], value>> ELSE d[i]]
  ELSE Append(d, <<key, value>>)

----------------------------------------------------------------------------
(* Outcomes of a call: a returned value or a raised exception. *)

Returned(v) ==
  [kind |-> "return", exc |-> "", name |-> "", var |-> 0, level |-> 0,
   order |-> 0, value |-> v]

\* var is the object the raise is about; the message itself holds only its name.
\* exc is the name of the exception class as the raising module writes it
\* (validate.py imports OverdeterminedConditionsError from errors.py, whose
\* text under src/ does not declare it; the name stands for that class).
Raised(exc, name, var, level, order) ==
  [kind |-> "raise", exc |-> exc, name |-> name, var |-> var, level |-> level,
   order |-> order, value |-> <<>>]

SetMin(S) == CHOOSE m \in S : \A x \in S : m <= x
SetMax(S) == CHOOSE m \in S : \A x \in S : m >= x

----------------------------------------------------------------------------
(* validate.py *)

\* normalize_ivp, the loop from entry i on with the dict built so far
RECURSIVE normalize_ivp_from(_, _, _)
normalize_ivp_from(ivp_dict, i, normalized) ==
  IF i > Len(ivp_dict) THEN Returned(normalized)
  ELSE LET key == ivp_dict[i][1]
           value == ivp_dict[i][2]
       IN IF key.cls = "Variable"
          THEN normalize_ivp_from(ivp_dict, i + 1,
                 PairDictSetItem(normalized, <<key, 0>>, value))
          ELSE IF key.cls = "Derivative"
          THEN normalize_ivp_from(ivp_dict, i + 1,
                 PairDictSetItem(normalized,
                   <<VarRef(derivatives[key.id].variable), derivatives[key.id].order>>,
                   value))
          ELSE Raised("TypeError", "", 0, 0, 0)

RECURSIVE normalize_ivp_SkipBadKeys_from(_, _, _)
normalize_ivp_SkipBadKeys_from(ivp_dict, i, normalized) ==
  IF i > Len(ivp_dict) THEN Returned(normalized)
  ELSE LET key == ivp_dict[i][1]
           value == ivp_dict[i][2]
       IN IF key.cls = "Variable"
          THEN normalize_ivp_SkipBadKeys_from(ivp_dict, i + 1,
                 PairDictSetItem(normalized, <<key, 0>>, value))
          ELSE IF key.cls = "Derivative"
          THEN normalize_ivp_SkipBadKeys_from(ivp_dict, i + 1,
                 PairDictSetItem(normalized,
                   <<VarRef(derivatives[key.id].variable), derivatives[key.id].order>>,
                   value))
          ELSE normalize_ivp_SkipBadKeys_from(ivp_dict, i + 1, normalized)

normalize_ivp_SkipBadKeys(ivp_dict) == normalize_ivp_SkipBadKeys_from(ivp_dict, 1, <<>>)

\* normalize_ivp
normalize_ivp(ivp_dict) == normalize_ivp_from(ivp_dict, 1, <<>>)

CollectConditions_ByName(var, normalized_ivp) ==
  LET RECURSIVE collect(_, _)
      collect(i, var_conditions) ==
        IF i > Len(normalized_ivp) THEN var_conditions
        ELSE IF variables[normalized_ivp[i][1][1].id].name = variables[var.id].name
             THEN collect(i + 1, IntDictSetItem(var_conditions,
                                   normalized_ivp[i][1][2], normalized_ivp[i][2]))
             ELSE collect(i + 1, var_conditions)
  IN collect(1, <<>>)

\* validate_ivp: the conditions of one variable (var_conditions)
CollectConditions(var, normalized_ivp) ==
  LET RECURSIVE collect(_, _)
      collect(i, var_conditions) ==
        IF i > Len(normalized_ivp) THEN var_conditions
        ELSE IF Is(normalized_ivp[i][1][1], var)
             THEN collect(i + 1, IntDictSetItem(var_conditions,
                                   normalized_ivp[i][1][2], normalized_ivp[i][2]))
             ELSE collect(i + 1, var_conditions)
  IN collect(1, <<>>)

NoError == Returned(None)

CheckVariable_NoExtraCheck(var, order, normalized_ivp) ==
  LET var_conditions == CollectConditions(var, normalized_ivp)
      required_levels == 0 .. (order - 1)
      provided_levels == {var_conditions[i][1] : i \in DOMAIN var_conditions}
      missing_levels == required_levels \ provided_levels
  IN IF missing_levels # {}
     THEN Raised("MissingInitialConditionError", variables[var.id].name, var.id,
                 SetMin(missing_levels), order)
     ELSE NoError

CheckVariable_HighestMissing(var, order, normalized_ivp) ==
  LET var_conditions == CollectConditions(var, normalized_ivp)
      required_levels == 0 .. (order - 1)
      provided_levels == {var_conditions[i][1] : i \in DOMAIN var_conditions}
      missing_levels == required_levels \ provided_levels
      extra_levels == provided_levels \ required_levels
  IN IF missing_levels # {}
     THEN Raised("MissingInitialConditionError", variables[var.id].name, var.id,
                 SetMax(missing_levels), order)
     ELSE IF extra_levels # {}
     THEN Raised("OverdeterminedConditionsError", variables[var.id].name, var.id,
                 0, order)
     ELSE NoError

\* validate_ivp: the body of the loop over the order map, for one variable
CheckVariable(var, order, normalized_ivp) ==
  LET var_conditions == CollectConditions(var, normalized_ivp)
      required_levels == 0 .. (order - 1)
      provided_levels == {var_conditions[i][1] : i \in DOMAIN var_conditions}
      missing_levels == required_levels \ provided_levels
      extra_levels == provided_levels \ required_levels
  IN IF missing_levels # {}
     THEN Raised("MissingInitialConditionError", variables[var.id].name, var.id,
                 SetMin(missing_levels), order)
     ELSE IF extra_levels # {}
     THEN Raised("OverdeterminedConditionsError", variables[var.id].name, var.id,
                 0, order)
     ELSE NoError

RECURSIVE validate_ivp_from_Backwards(_, _, _)
validate_ivp_from_Backwards(orders_, normalized_ivp, i) ==
  IF i > Len(orders_) THEN Returned(None)
  ELSE LET last == Len(orders_) - i + 1
           checked == CheckVariable(orders_[last][1], orders_[last][2], normalized_ivp)
       IN IF checked.kind = "raise" THEN checked
          ELSE validate_ivp_from_Backwards(orders_, normalized_ivp, i + 1)

\* validate_ivp: the loop over orders.items(), from entry i on
RECURSIVE validate_ivp_from(_, _, _)
validate_ivp_from(orders_, normalized_ivp, i) ==
  IF i > Len(orders_) THEN Returned(None)
  ELSE LET checked == CheckVariable(orders_[i][1], orders_[i][2], normalized_ivp)
       IN IF checked.kind = "raise" THEN checked
          ELSE validate_ivp_from(orders_, normalized_ivp, i + 1)

\* validate_ivp(orders, ivp, t0); t0 is never read
validate_ivp(orders_, ivp_) ==
  LET normalized == normalize_ivp(ivp_)
  IN IF normalized.kind = "raise" THEN normalized
     ELSE validate_ivp_from(orders_, normalized.value, 1)

----------------------------------------------------------------------------
(* Object creation, as functions of the two heaps H = [variables, derivatives]. *)

EmptyHeap == [variables |-> <<>>, derivatives |-> <<>>]

\* var(name, order): a new Variable object
var(H, name, order) ==
  [H EXCEPT !.variables = Append(@, Variable__init__(name, order))]

\* Derivative(variable, order): a new Derivative object, outside any cache
Derivative(H, v, n) ==
  [H EXCEPT !.derivatives = Append(@, Derivative__init__(v, n))]

Variable_d_AlwaysNew(H, v, n) ==
  [variables |->
     [H.variables EXCEPT ![v]._derivatives =
        IntDictSetItem(@, n, Len(H.derivatives) + 1)],
   derivatives |-> Append(H.derivatives, Derivative__init__(v, n))]

\* Variable.d(n): the heaps after the call
Variable_d(H, v, n) ==
  IF ~IntDictHas(H.variables[v]._derivatives, n)
  THEN [variables |->
          [H.variables EXCEPT ![v]._derivatives =
             IntDictSetItem(@, n, Len(H.derivatives) + 1)],
        derivatives |-> Append(H.derivatives, Derivative__init__(v, n))]
  ELSE H

\* Variable.d(n): the object it returns
Variable_d_value(H, v, n) ==
  DerivRef(IntDictGet(Variable_d(H, v, n).variables[v]._derivatives, n))

\* x.d(n) for every n of S, lowest first
RECURSIVE Variable_d_each(_, _, _)
Variable_d_each(H, v, S) ==
  IF S = {} THEN H
  ELSE Variable_d_each(Variable_d(H, v, SetMin(S)), v, S \ {SetMin(S)})

----------------------------------------------------------------------------
(* The caller of validate_ivp: x = var("x") with x.d(n) for every level n,   *)
(* a second variable of the same name with its first derivative, one        *)
(* derivative reference built by hand, and the two dicts it fills.          *)

CallerHeap ==
  Derivative(
    Variable_d(
      Variable_d_each(var(var(EmptyHeap, "x", None), "x", None), 1, Levels),
      2, 1),
    1, 1)

\* The derivative reference built by hand: Derivative(x, 1), equal to x.d(1).
HandBuilt == DerivRef(Len(CallerHeap.derivatives))

Keys == VarRefs \cup DerivRefs \cup {StrKey}

Init ==
  /\ variables = CallerHeap.variables
  /\ derivatives = CallerHeap.derivatives
  /\ orders = <<>>
  /\ ivp = <<>>
  /\ eqs = <<>>
  /\ op = "init"
  /\ result = Returned(None)
  /\ stages = <<>>
  /\ expressions = <<>>
  /\ args = NoArgs
  /\ calls = <<>>
  /\ integrator = NoIntegrator
  /\ arrays = <<>>
  /\ solutions = <<>>

\* orders[v] = k
OrdersSetItem(v, k) ==
  /\ orders' = DictSetItem(orders, v, k)
  /\ op' = "setitem"
  /\ result' = Returned(None)
  /\ UNCHANGED <<variables, derivatives, ivp, eqs, stages, expressions, args, calls,
                 integrator, arrays, solutions>>

\* ivp[key] = value
IvpSetItem(key, value) ==
  /\ DictIndex(ivp, key) # 0 \/ Len(ivp) < MaxIvp
  /\ ivp' = DictSetItem(ivp, key, value)
  /\ op' = "setitem"
  /\ result' = Returned(None)
  /\ args' = NoArgs
  /\ UNCHANGED <<variables, derivatives, orders, eqs, stages, expressions, calls,
                 integrator, arrays, solutions>>

validate_ivp_ConsumingIvp ==
  /\ op' = "validate_ivp"
  /\ result' = validate_ivp(orders, ivp)
  /\ ivp' = IF ivp = <<>> THEN ivp ELSE Tail(ivp)
  /\ UNCHANGED <<variables, derivatives, orders, eqs, stages, expressions, args, calls,
                 integrator, arrays, solutions>>

\* validate_ivp(orders, ivp, t0), called on the caller's two dicts
validate_ivp_call ==
  /\ op' = "validate_ivp"
  /\ result' = validate_ivp(orders, ivp)
  /\ UNCHANGED <<variables, derivatives, orders, ivp, eqs, stages, expressions, args, calls,
                 integrator, arrays, solutions>>

\* normalize_ivp(ivp), called on the caller's dict
normalize_ivp_call ==
  /\ op' = "normalize_ivp"
  /\ result' = normalize_ivp(ivp)
  /\ UNCHANGED <<variables, derivatives, orders, ivp, eqs, stages, expressions, args, calls,
                 integrator, arrays, solutions>>

SetOrders == \E v \in VarRefs, k \in Orders : OrdersSetItem(v, k)
SetIvp == \E key \in Keys \ {HandBuilt} : IvpSetItem(key, 1)
SetIvpValue == \E key \in Keys, value \in Values : IvpSetItem(key, value)

Next == SetOrders \/ SetIvp \/ validate_ivp_call

Spec == Init /\ [][Next]_vars

NextNormalize == SetIvpValue \/ normalize_ivp_call

SpecNormalize == Init /\ [][NextNormalize]_vars

----------------------------------------------------------------------------
(* What an IVP supplies, read off the caller's dict itself. *)

IsSymbolKey(key) == key.cls \in {"Variable", "Derivative"}
KeyVar(key) == IF key.cls = "Variable" THEN key.id ELSE derivatives[key.id].variable
KeyLevel(key) == IF key.cls = "Variable" THEN 0 ELSE derivatives[key.id].order

AllKeysSymbols == \A i \in DOMAIN ivp : IsSymbolKey(ivp[i][1])

\* The levels the IVP supplies for the variable object v.
LevelsSupplied(v) ==
  {KeyLevel(ivp[i][1]) :
     i \in {j \in DOMAIN ivp : IsSymbolKey(ivp[j][1]) /\ KeyVar(ivp[j][1]) = v}}

Covered(i) == LevelsSupplied(orders[i][1].id) = 0 .. (orders[i][2] - 1)
LacksLevel(i) == (0 .. (orders[i][2] - 1)) \ LevelsSupplied(orders[i][1].id) # {}
HasOutsideLevel(i) == LevelsSupplied(orders[i][1].id) \ (0 .. (orders[i][2] - 1)) # {}

ExactCoverage == \A i \in DOMAIN orders : Covered(i)

Validated == op = "validate_ivp"
Accepted == result.kind = "return"
Raises(exc) == result.kind = "raise" /\ result.exc = exc

\* The order the order map gives the variable object v.
OrderOf(v) == orders[CHOOSE i \in DOMAIN orders : orders[i][1].id = v][2]

(* C1: for an IVP whose keys are all variables or derivative references,   *)
(* validate_ivp returns without raising if and only if every variable of   *)
(* the order map, of order k, is supplied exactly the levels 0..k-1.       *)
C1_AcceptsIffExactCoverage ==
  (Validated /\ AllKeysSymbols) => (Accepted <=> ExactCoverage)

C1_Witness ==
  /\ Validated /\ AllKeysSymbols /\ Accepted
  /\ \E i \in DOMAIN orders : orders[i][2] = 2

(* C2 as stated: for every (order map, IVP) pair validate_ivp accepts an    *)
(* exactly covering IVP or raises one of MissingInitialCondition and        *)
(* OverdeterminedConditions, and ends in no other way.                      *)
C2_Original ==
  Validated =>
    \/ Accepted /\ ExactCoverage
    \/ Raises("MissingInitialConditionError")
    \/ Raises("OverdeterminedConditionsError")

(* C2 amended: when every IVP key is a variable or a derivative reference,  *)
(* validate_ivp accepts (and the coverage is exact) or raises exactly one   *)
(* of the two errors (and the coverage is not exact); when some key is      *)
(* neither, it raises TypeError.                                            *)
C2_TotalOnSymbolKeys ==
  Validated =>
    IF AllKeysSymbols
    THEN \/ Accepted /\ ExactCoverage
         \/ /\ ~ExactCoverage
            /\ \/ Raises("MissingInitialConditionError")
               \/ Raises("OverdeterminedConditionsError")
    ELSE Raises("TypeError")

C2_Witness == Validated /\ ~AllKeysSymbols /\ Raises("TypeError") /\ Len(orders) > 0

(* C3: when validate_ivp raises MissingInitialCondition for a variable of   *)
(* order k, the level it names is the lowest level of 0..k-1 that the IVP   *)
(* does not supply for that variable.                                       *)
C3_NamesLowestMissingLevel ==
  (Validated /\ Raises("MissingInitialConditionError")) =>
    /\ \E i \in DOMAIN orders : orders[i][1].id = result.var
    /\ result.order = OrderOf(result.var)
    /\ result.name = variables[result.var].name
    /\ result.level \in 0 .. (result.order - 1)
    /\ result.level \notin LevelsSupplied(result.var)
    /\ \A l \in 0 .. (result.level - 1) : l \in LevelsSupplied(result.var)

C3_Witness ==
  /\ Validated /\ Raises("MissingInitialConditionError")
  /\ result.order = 2 /\ result.level = 1
  /\ LevelsSupplied(result.var) = {0}

\* The first variable of the order map whose supplied levels are not 0..k-1.
FirstUncovered == SetMin({i \in DOMAIN orders : ~Covered(i)})

(* C4 as stated: validate_ivp raises OverdeterminedConditions whenever the  *)
(* IVP supplies, for some variable of the order map, a level outside        *)
(* 0..k-1.                                                                  *)
C4_Original ==
  (Validated /\ AllKeysSymbols /\ \E i \in DOMAIN orders : HasOutsideLevel(i)) =>
    Raises("OverdeterminedConditionsError")

(* C4 amended: whenever the IVP (its keys all variables or derivative       *)
(* references) supplies a level outside 0..k-1 for some variable of the     *)
(* order map, validate_ivp raises; the error is OverdeterminedConditions    *)
(* when the first variable of the order map that is not exactly covered     *)
(* lacks none of its levels 0..k-1, and MissingInitialCondition otherwise.  *)
C4_OutsideLevelRaises ==
  (Validated /\ AllKeysSymbols /\ \E i \in DOMAIN orders : HasOutsideLevel(i)) =>
    IF LacksLevel(FirstUncovered)
    THEN Raises("MissingInitialConditionError")
    ELSE Raises("OverdeterminedConditionsError")

C4_Witness ==
  /\ Validated /\ AllKeysSymbols
  /\ \E i \in DOMAIN orders : HasOutsideLevel(i) /\ LacksLevel(i)
  /\ Raises("MissingInitialConditionError")

\* Some variable of the order map has its level 0 supplied twice.
DuplicateSlot ==
  \E i \in DOMAIN orders : \E a, b \in DOMAIN ivp :
    /\ ivp[a][1] = orders[i][1]
    /\ ivp[b][1].cls = "Derivative"
    /\ derivatives[ivp[b][1].id].variable = orders[i][1].id
    /\ derivatives[ivp[b][1].id].order = 0

(* C5: an IVP that supplies both the bare variable y and an order-0         *)
(* derivative reference of y is rejected with OverdeterminedConditions.     *)
C5_DuplicateSlotRejected ==
  (Validated /\ AllKeysSymbols /\ ExactCoverage /\ DuplicateSlot) =>
    Raises("OverdeterminedConditionsError")

SlotOf(key) == <<VarRef(KeyVar(key)), KeyLevel(key)>>

(* C7: normalize_ivp maps every entry keyed by a bare variable v to         *)
(* (v, 0) and every entry keyed by a derivative reference of v of order n   *)
(* to (v, n) with the entry's value, raises TypeError for any other key,    *)
(* and its result holds no key that comes from no entry.                    *)
C7_NormalizeKeepsEntries ==
  (op = "normalize_ivp") =>
    IF AllKeysSymbols
    THEN /\ result.kind = "return"
         /\ \A i \in DOMAIN ivp : \E j \in DOMAIN result.value :
              result.value[j] = <<SlotOf(ivp[i][1]), ivp[i][2]>>
         /\ \A j \in DOMAIN result.value : \E i \in DOMAIN ivp :
              result.value[j][1] = SlotOf(ivp[i][1])
    ELSE Raises("TypeError")

----------------------------------------------------------------------------
(* symbols.py as a program: variables and derivative references are made   *)
(* one call at a time.                                                     *)

InitSymbols ==
  /\ variables = <<>>
  /\ derivatives = <<>>
  /\ orders = <<>>
  /\ ivp = <<>>
  /\ eqs = <<>>
  /\ op = "init"
  /\ result = Returned(None)
  /\ stages = <<>>
  /\ expressions = <<>>
  /\ args = NoArgs
  /\ calls = <<>>
  /\ integrator = NoIntegrator
  /\ arrays = <<>>
  /\ solutions = <<>>

Heap == [variables |-> variables, derivatives |-> derivatives]

\* v = var(name, order)
var_call(name, order) ==
  /\ Len(variables) < MaxVars
  /\ variables' = var(Heap, name, order).variables
  /\ op' = "var"
  /\ result' = Returned(<<VarRef(Len(variables) + 1)>>)
  /\ args' = NoArgs
  /\ UNCHANGED <<derivatives, orders, ivp, eqs, stages, expressions, calls,
                 integrator, arrays, solutions>>

\* v.d(n)
Variable_d_call(v, n) ==
  /\ IntDictHas(variables[v]._derivatives, n) \/ Len(derivatives) < MaxDerivs
  /\ variables' = Variable_d(Heap, v, n).variables
  /\ derivatives' = Variable_d(Heap, v, n).derivatives
  /\ op' = "Variable.d"
  /\ result' = Returned(<<Variable_d_value(Heap, v, n)>>)
  /\ args' = [self |-> VarRef(v), n |-> n]
  /\ UNCHANGED <<orders, ivp, eqs, stages, expressions, calls,
                 integrator, arrays, solutions>>

\* Derivative.d: self.d(n) is self.variable.d(self.order + n)
Derivative_d_call(self, n) ==
  LET v == derivatives[self].variable
      k == derivatives[self].order + n
  IN /\ IntDictHas(variables[v]._derivatives, k) \/ Len(derivatives) < MaxDerivs
     /\ variables' = Variable_d(Heap, v, k).variables
     /\ derivatives' = Variable_d(Heap, v, k).derivatives
     /\ op' = "Derivative.d"
     /\ result' = Returned(<<Variable_d_value(Heap, v, k)>>)
     /\ args' = [self |-> DerivRef(self), n |-> n]
     /\ UNCHANGED <<orders, ivp, eqs, stages, expressions, calls,
                    integrator, arrays, solutions>>

\* Derivative(v, n), called directly
Derivative_call(v, n) ==
  /\ Len(derivatives) < MaxDerivs
  /\ derivatives' = Derivative(Heap, v, n).derivatives
  /\ op' = "Derivative"
  /\ result' = Returned(<<DerivRef(Len(derivatives) + 1)>>)
  /\ args' = NoArgs
  /\ UNCHANGED <<variables, orders, ivp, eqs, stages, expressions, calls,
                 integrator, arrays, solutions>>

NewVariable == \E name \in Names : var_call(name, None)
TakeDerivative == \E v \in DOMAIN variables, n \in Levels : Variable_d_call(v, n)
TakeHigherDerivative == \E d \in DOMAIN derivatives, n \in {0, 1} : Derivative_d_call(d, n)
BuildDerivative == \E v \in DOMAIN variables, n \in Levels : Derivative_call(v, n)

NextSymbols == NewVariable \/ TakeDerivative \/ TakeHigherDerivative \/ BuildDerivative

SpecSymbols == InitSymbols /\ [][NextSymbols]_vars

----------------------------------------------------------------------------
(* analyze.py as api.solve calls it: collect_variables, infer_orders,      *)
(* resolve_orders.  An equation is held by the leaves of its two sides:     *)
(* the variables and derivative references it is built from.               *)

Eq(leaves) == [leaves |-> leaves]

\* collect_variables(eqs): the variables the equations refer to
collect_variables(eqs_) ==
  {KeyVar(leaf) : leaf \in UNION {eqs_[i].leaves : i \in DOMAIN eqs_}}

infer_orders_Lowest(eqs_, v) ==
  SetMin({KeyLevel(leaf) :
            leaf \in {l \in UNION {eqs_[i].leaves : i \in DOMAIN eqs_} : KeyVar(l) = v}})

\* infer_orders(eqs)[v]: the highest derivative level the equations use for v
infer_orders(eqs_, v) ==
  SetMax({KeyLevel(leaf) :
            leaf \in {l \in UNION {eqs_[i].leaves : i \in DOMAIN eqs_} : KeyVar(l) = v}})

RECURSIVE resolve_orders_KeepInferred_from(_, _, _, _)
resolve_orders_KeepInferred_from(variables_, eqs_, i, orders_) ==
  IF i > Len(variables_) THEN Returned(orders_)
  ELSE LET v == variables_[i]
           declared == variables[v].intent_order
           inferred == infer_orders(eqs_, v)
       IN IF declared # None /\ declared[1] < inferred
          THEN Raised("OrderMismatchError", variables[v].name, v, inferred, declared[1])
          ELSE resolve_orders_KeepInferred_from(variables_, eqs_, i + 1,
                 DictSetItem(orders_, VarRef(v), inferred))

\* resolve_orders(variables, inferred): the order map, in the order of variables,
\* or OrderMismatchError for a declared order below the inferred one
RECURSIVE resolve_orders_from(_, _, _, _)
resolve_orders_from(variables_, eqs_, i, orders_) ==
  IF i > Len(variables_) THEN Returned(orders_)
  ELSE LET v == variables_[i]
           declared == variables[v].intent_order
           inferred == infer_orders(eqs_, v)
       IN IF declared = None
          THEN resolve_orders_from(variables_, eqs_, i + 1,
                 DictSetItem(orders_, VarRef(v), inferred))
          ELSE IF declared[1] < inferred
          THEN Raised("OrderMismatchError", variables[v].name, v, inferred, declared[1])
          ELSE resolve_orders_from(variables_, eqs_, i + 1,
                 DictSetItem(orders_, VarRef(v), declared[1]))

resolve_orders(variables_, eqs_) == resolve_orders_from(variables_, eqs_, 1, <<>>)

\* list(s) for a set s: some enumeration of it
ListsOf(S) ==
  {l \in [1 .. Cardinality(S) -> S] : \A i, j \in 1 .. Cardinality(S) : l[i] = l[j] => i = j}

----------------------------------------------------------------------------
(* backends/sympy_backend.py *)

\* What the collaborators of SymPyBackend.solve may do in one call: all go
\* through, or eq.sympy(), collect_variables or sp.dsolve raises.
SymPyBehaviours == {"ok", "sympy_raises", "collect_raises", "dsolve_raises"}

\* SolutionExpr(solutions, t_symbol) with solutions = {var: solution_expr}
SolutionExpr(v) == <<"SolutionExpr", <<<<VarRef(v), "solution_expr">>>>>>

SymPyBackend_solve_try_NoVariableCheck(equations, behaviour) ==
  IF Len(equations) # 1 THEN Raised("BackendError", "", 0, 0, 0)
  ELSE IF behaviour = "sympy_raises" THEN Raised("ValueError", "", 0, 0, 0)
  ELSE IF behaviour = "collect_raises" THEN Raised("ImportError", "", 0, 0, 0)
  ELSE IF collect_variables(<<equations[1]>>) = {}
  THEN Raised("IndexError", "", 0, 0, 0)
  ELSE IF behaviour = "dsolve_raises"
  THEN Raised("NotImplementedError", "", 0, 0, 0)
  ELSE Returned(SolutionExpr(SetMin(collect_variables(<<equations[1]>>))))

\* SymPyBackend.solve, the body of its try statement
SymPyBackend_solve_try(equations, behaviour) ==
  IF Len(equations) # 1 THEN Raised("BackendError", "", 0, 0, 0)
  ELSE IF behaviour = "sympy_raises" THEN Raised("ValueError", "", 0, 0, 0)
  ELSE IF behaviour = "collect_raises" THEN Raised("ImportError", "", 0, 0, 0)
  ELSE IF Cardinality(collect_variables(<<equations[1]>>)) # 1
  THEN Raised("BackendError", "", 0, 0, 0)
  ELSE IF behaviour = "dsolve_raises"
  THEN Raised("NotImplementedError", "", 0, 0, 0)
  ELSE Returned(SolutionExpr(CHOOSE v \in collect_variables(<<equations[1]>>) : TRUE))

SymPyBackend_solve_except_OnlyNotImplemented(tried) ==
  IF tried.kind = "raise" /\ tried.exc = "NotImplementedError"
  THEN Raised("BackendError", "", 0, 0, 0)
  ELSE tried

\* SymPyBackend.solve, its clause `except Exception as e: raise BackendError`
SymPyBackend_solve_except(tried) ==
  IF tried.kind = "raise" THEN Raised("BackendError", "", 0, 0, 0) ELSE tried

SymPyBackend_solve_with(equations, behaviour) ==
  SymPyBackend_solve_except(SymPyBackend_solve_try(equations, behaviour))

\* SymPyBackend.solve; dsolved: whether eq.sympy() and sp.dsolve go through
SymPyBackend_solve(equations, dsolved) ==
  SymPyBackend_solve_with(equations, IF dsolved THEN "ok" ELSE "dsolve_raises")

----------------------------------------------------------------------------
(* api.py: solve *)

\* reduce.build_state_map(orders): mapping[(var, level)] = index, the levels
\* 0 .. order-1 of each variable in the order of the order map, indices
\* counted from 0
RECURSIVE build_state_map_levels_IndexByLevel(_, _, _, _)
build_state_map_levels_IndexByLevel(mapping, v, k, level) ==
  IF level >= k THEN mapping
  ELSE build_state_map_levels_IndexByLevel(
         PairDictSetItem(mapping, <<v, level>>, level), v, k, level + 1)

RECURSIVE build_state_map_levels(_, _, _, _)
build_state_map_levels(mapping, v, k, level) ==
  IF level >= k THEN mapping
  ELSE build_state_map_levels(PairDictSetItem(mapping, <<v, level>>, Len(mapping)),
                              v, k, level + 1)

RECURSIVE build_state_map_from(_, _, _)
build_state_map_from(orders_, i, mapping) ==
  IF i > Len(orders_) THEN mapping
  ELSE build_state_map_from(orders_, i + 1,
         build_state_map_levels(mapping, orders_[i][1], orders_[i][2], 0))

build_state_map(orders_) == build_state_map_from(orders_, 1, <<>>)

\* mapping[(var, level)], and the inverse lookup
StateIndex(mapping, key) ==
  mapping[CHOOSE i \in DOMAIN mapping : PairKeyMatch(mapping[i][1], key)][2]
StateTriple(mapping, index) ==
  mapping[CHOOSE i \in DOMAIN mapping : mapping[i][2] = index][1]

\* convert_ivp_to_state_vector(ivp, mapping): one entry per state slot, the
\* IVP's value of the slot's (variable, level); x0[i + 1] is the slot i
convert_ivp_to_state_vector(ivp_, mapping) ==
  LET normalized == normalize_ivp(ivp_).value
      Value(key) ==
        IF \E j \in DOMAIN normalized : PairKeyMatch(normalized[j][1], key)
        THEN normalized[CHOOSE j \in DOMAIN normalized :
                          PairKeyMatch(normalized[j][1], key)][2]
        ELSE 0
  IN [i \in 1 .. Len(mapping) |-> Value(StateTriple(mapping, i - 1))]

\* What the run of one solve call gives: its outcome and the stages it completed.
Run(outcome, done) == [outcome |-> outcome, stages |-> done]

ReduceStages == <<"state_map", "isolate", "ivp_to_state", "compile", "integrate">>

\* The stages after validation (reduce.py, compile.py, backends/scipy_ivp.py):
\* failed is 0 when all of them go through, else the place in ReduceStages
\* of the one that raises.
solve_reduce_and_integrate(orders_, ivp_, done, failed) ==
  IF failed = 0
  THEN LET mapping == build_state_map(orders_)
           x0 == convert_ivp_to_state_vector(ivp_, mapping)
       IN Run(Returned(<<"Solution", mapping, x0>>), done \o ReduceStages)
  ELSE Run(Raised(CASE ReduceStages[failed] = "isolate" -> "UnsolvableIsolation"
                    [] ReduceStages[failed] = "compile" -> "CompilationError"
                    [] OTHER -> "IntegrationFailure", "", 0, 0, 0),
           done \o SubSeq(ReduceStages, 1, failed - 1))

solve_scipy_MapBeforeValidation(orders_, ivp_, tspan, failed) ==
  IF ivp_ = None THEN Run(Raised("ValueError", "IVP conditions required", 0, 0, 0), <<"analyze">>)
  ELSE IF tspan = None THEN Run(Raised("ValueError", "tspan required", 0, 0, 0), <<"analyze">>)
  ELSE LET validated == validate_ivp(orders_, ivp_[1])
       IN IF validated.kind = "raise" THEN Run(validated, <<"analyze", "state_map">>)
          ELSE solve_reduce_and_integrate(orders_, ivp_[1], <<"analyze", "validate">>, failed)

solve_scipy_NoIvpCheck(orders_, ivp_, tspan, failed) ==
  IF tspan = None THEN Run(Raised("ValueError", "tspan required", 0, 0, 0), <<"analyze">>)
  ELSE IF ivp_ = None THEN Run(Raised("AttributeError", "", 0, 0, 0), <<"analyze">>)
  ELSE LET validated == validate_ivp(orders_, ivp_[1])
       IN IF validated.kind = "raise" THEN Run(validated, <<"analyze">>)
          ELSE solve_reduce_and_integrate(orders_, ivp_[1], <<"analyze", "validate">>, failed)

solve_scipy_TspanFirst(orders_, ivp_, tspan, failed) ==
  IF tspan = None THEN Run(Raised("ValueError", "tspan required", 0, 0, 0), <<"analyze">>)
  ELSE IF ivp_ = None THEN Run(Raised("ValueError", "IVP conditions required", 0, 0, 0), <<"analyze">>)
  ELSE LET validated == validate_ivp(orders_, ivp_[1])
       IN IF validated.kind = "raise" THEN Run(validated, <<"analyze">>)
          ELSE solve_reduce_and_integrate(orders_, ivp_[1], <<"analyze", "validate">>, failed)

\* solve, the branch backend == "scipy"
solve_scipy(orders_, ivp_, tspan, failed) ==
  IF ivp_ = None THEN Run(Raised("ValueError", "IVP conditions required", 0, 0, 0), <<"analyze">>)
  ELSE IF tspan = None THEN Run(Raised("ValueError", "tspan required", 0, 0, 0), <<"analyze">>)
  ELSE LET validated == validate_ivp(orders_, ivp_[1])
       IN IF validated.kind = "raise" THEN Run(validated, <<"analyze">>)
          ELSE solve_reduce_and_integrate(orders_, ivp_[1], <<"analyze", "validate">>, failed)

solve_SympyFallsBack(eqs_, variables_, ivp_, tspan, backend, dsolved, failed) ==
  LET resolved == resolve_orders(variables_, eqs_)
      backend1 == IF backend = "None" THEN "scipy" ELSE backend
      symbolic == SymPyBackend_solve(eqs_, dsolved)
      backend2 == IF backend1 \in {"auto", "sympy"} /\ symbolic.kind = "raise"
                  THEN "scipy"
                  ELSE backend1
  IN IF resolved.kind = "raise" THEN Run(resolved, <<>>)
     ELSE IF backend2 = "auto" THEN Run(symbolic, <<"analyze">>)
     ELSE IF backend2 = "scipy"
     THEN solve_scipy(resolved.value, ivp_, tspan, failed)
     ELSE IF backend2 = "sympy" THEN Run(symbolic, <<"analyze">>)
     ELSE IF backend2 = "scipy_bvp"
     THEN Run(Raised("NotImplementedError", "", 0, 0, 0), <<"analyze">>)
     ELSE Run(Raised("ValueError", "Unknown backend", 0, 0, 0), <<"analyze">>)

solve_AutoNoFallback(eqs_, variables_, ivp_, tspan, backend, dsolved, failed) ==
  LET resolved == resolve_orders(variables_, eqs_)
      backend1 == IF backend = "None" THEN "scipy" ELSE backend
      symbolic == SymPyBackend_solve(eqs_, dsolved)
  IN IF resolved.kind = "raise" THEN Run(resolved, <<>>)
     ELSE IF backend1 = "auto" THEN Run(symbolic, <<"analyze">>)
     ELSE IF backend1 = "scipy"
     THEN solve_scipy(resolved.value, ivp_, tspan, failed)
     ELSE IF backend1 = "sympy" THEN Run(symbolic, <<"analyze">>)
     ELSE IF backend1 = "scipy_bvp"
     THEN Run(Raised("NotImplementedError", "", 0, 0, 0), <<"analyze">>)
     ELSE Run(Raised("ValueError", "Unknown backend", 0, 0, 0), <<"analyze">>)

\* solve(equation, ivp=, tspan=, backend=); variables_ is list(variables),
\* dsolved and failed are what the collaborators do in this call
solve(eqs_, variables_, ivp_, tspan, backend, dsolved, failed) ==
  LET resolved == resolve_orders(variables_, eqs_)
      backend1 == IF backend = "None" THEN "scipy" ELSE backend
      symbolic == SymPyBackend_solve(eqs_, dsolved)
      backend2 == IF backend1 = "auto" /\ symbolic.kind = "raise" THEN "scipy"
                  ELSE backend1
  IN IF resolved.kind = "raise" THEN Run(resolved, <<>>)
     ELSE IF backend2 = "auto" THEN Run(symbolic, <<"analyze">>)
     ELSE IF backend2 = "scipy"
     THEN solve_scipy(resolved.value, ivp_, tspan, failed)
     ELSE IF backend2 = "sympy" THEN Run(symbolic, <<"analyze">>)
     ELSE IF backend2 = "scipy_bvp"
     THEN Run(Raised("NotImplementedError", "", 0, 0, 0), <<"analyze">>)
     ELSE Run(Raised("ValueError", "Unknown backend", 0, 0, 0), <<"analyze">>)

Backends == {"None", "auto", "scipy", "sympy", "scipy_bvp", "euler"}
Tspans == {None, Some(<<0, 1>>)}
FailurePoints == {0, 2, 4, 5}

\* solve(eqs, ivp=ivp or None, tspan=tspan, backend=backend)
solve_call(withIvp, tspan, backend, dsolved, failed) ==
  \E variables_ \in ListsOf(collect_variables(eqs)) :
    LET run == solve(eqs, variables_, IF withIvp THEN Some(ivp) ELSE None,
                     tspan, backend, dsolved, failed)
    IN /\ op' = "solve"
       /\ result' = run.outcome
       /\ stages' = run.stages
       /\ args' = [withIvp |-> withIvp, tspan |-> tspan, backend |-> backend,
                   dsolved |-> dsolved, failed |-> failed]
       /\ UNCHANGED <<variables, derivatives, orders, ivp, eqs, expressions, calls,
                 integrator, arrays, solutions>>

\* The caller of solve: x = var("x", order=declared) and z = var("z", order=
\* declaredZ), their derivative references, and one equation in x alone.
SolveHeap(declared, declaredZ) ==
  Variable_d(
    Variable_d_each(var(var(EmptyHeap, "x", declared), "z", declaredZ), 1, 1 .. MaxOrder),
    2, 1)

DeclaredOrders == {None} \cup {Some(k) : k \in 1 .. MaxOrder}

InitSolve ==
  /\ \E declared \in DeclaredOrders, declaredZ \in {None, Some(1)} :
       /\ variables = SolveHeap(declared, declaredZ).variables
       /\ derivatives = SolveHeap(declared, declaredZ).derivatives
  /\ \E top \in 1 .. MaxOrder : eqs = <<Eq({VarRef(1), DerivRef(top)})>>
  /\ orders = <<>>
  /\ ivp = <<>>
  /\ op = "init"
  /\ result = Returned(None)
  /\ stages = <<>>
  /\ expressions = <<>>
  /\ args = NoArgs
  /\ calls = <<>>
  /\ integrator = NoIntegrator
  /\ arrays = <<>>
  /\ solutions = <<>>

\* The collaborators' behaviour is drawn only where the call reaches them.
\* A call leaves everything a later call reads as it was, so the calls made
\* from one caller state are all drawn from that state and not from the
\* state another call ended in.
Solve ==
  /\ op # "solve"
  /\ \E withIvp \in BOOLEAN, tspan \in Tspans, backend \in Backends :
       \E dsolved \in IF backend \in {"auto", "sympy"} THEN BOOLEAN ELSE {TRUE} :
         \E failed \in IF backend \in {"None", "scipy", "auto"} /\ withIvp /\ tspan # None
                       THEN FailurePoints ELSE {0} :
           solve_call(withIvp, tspan, backend, dsolved, failed)

\* The caller fills its IVP in the order of the keys' addresses.
SetIvpInOrder ==
  \E key \in Keys :
    /\ \A i \in DOMAIN ivp : PyId(ivp[i][1]) < PyId(key)
    /\ IvpSetItem(key, 1)

NextSolve == SetIvpInOrder \/ Solve

SpecSolve == InitSolve /\ [][NextSolve]_vars

----------------------------------------------------------------------------
\* The variables some IVP entry is about and no equation refers to.
IvpOnlyVariables ==
  {KeyVar(ivp[i][1]) : i \in {j \in DOMAIN ivp : IsSymbolKey(ivp[j][1])}}
    \ collect_variables(eqs)

PassedValidation == op = "solve" /\ Len(stages) >= 2 /\ stages[2] = "validate"

(* C8: when the IVP holds an entry for a variable that appears in no        *)
(* equation, solve validates the entry against the variable's declared      *)
(* order and fails if there is none: the call gets past IVP validation      *)
(* only if every such variable has a declared order k and is supplied       *)
(* exactly the levels 0..k-1.                                               *)
C8_IvpOnlyVariableChecked ==
  PassedValidation =>
    \A v \in IvpOnlyVariables :
      /\ variables[v].intent_order # None
      /\ LevelsSupplied(v) = 0 .. (variables[v].intent_order[1] - 1)

(* C9: variables are equal by identity only: two Variable objects of the    *)
(* same name and declared order are unequal, a Variable equals only         *)
(* itself, and as keys of the IVP or of the order map two such variables    *)
(* address distinct entries, each holding its own key.                      *)
C9_VariablesEqualByIdentity ==
  \A a, b \in VarRefs :
    /\ Variable__eq__(a, b) <=> a.id = b.id
    /\ a.id # b.id =>
         /\ DictIndex(ivp, a) # 0 =>
              /\ DictIndex(ivp, a) # DictIndex(ivp, b)
              /\ ivp[DictIndex(ivp, a)][1] = a
         /\ DictIndex(orders, a) # 0 =>
              /\ DictIndex(orders, a) # DictIndex(orders, b)
              /\ orders[DictIndex(orders, a)][1] = a

C9_Witness ==
  \E a, b \in VarRefs :
    /\ a.id # b.id
    /\ variables[a.id].name = variables[b.id].name
    /\ variables[a.id].intent_order = variables[b.id].intent_order
    /\ DictIndex(ivp, a) # 0 /\ DictIndex(ivp, b) # 0
    /\ DictIndex(orders, a) # 0 /\ DictIndex(orders, b) # 0

(* C10: two derivative references are equal if and only if they refer to    *)
(* the same variable object and have the same order; equal references have  *)
(* equal hashes; a reference never equals one of another variable of the    *)
(* same name, nor a variable.                                               *)
C10_DerivativeEquality ==
  /\ \A a, b \in DerivRefs :
       /\ PyEq(a, b) <=>
            /\ derivatives[a.id].variable = derivatives[b.id].variable
            /\ derivatives[a.id].order = derivatives[b.id].order
       /\ PyEq(a, b) => PyHash(a) = PyHash(b)
       /\ ( /\ derivatives[a.id].variable # derivatives[b.id].variable
            /\ variables[derivatives[a.id].variable].name
                 = variables[derivatives[b.id].variable].name ) => ~PyEq(a, b)
  /\ \A a \in DerivRefs, v \in VarRefs : ~PyEq(a, v) /\ ~PyEq(v, a)

C10_Witness ==
  \E a, b \in DerivRefs :
    /\ a.id # b.id
    /\ derivatives[a.id].variable = derivatives[b.id].variable
    /\ derivatives[a.id].order = derivatives[b.id].order
    /\ \E v \in VarRefs :
         /\ v.id # derivatives[a.id].variable
         /\ variables[v.id].name = variables[derivatives[a.id].variable].name

(* C11: an order-0 derivative reference is the variable itself: for every  *)
(* variable y, the call y.d(0) yields y.                                    *)
C11_OrderZeroIsVariable ==
  (op = "Variable.d" /\ args.n = 0) => result.value = <<args.self>>

----------------------------------------------------------------------------
(* symbols.py: Expression and the arithmetic operators of Expression,      *)
(* Variable and Derivative (the three classes define the same eight        *)
(* methods).                                                               *)

MaxExprs == 2

ExprRef(k) == [cls |-> "Expression", id |-> k]
IntConst(c) == [cls |-> "int", id |-> c]
ExprRefs == {ExprRef(k) : k \in DOMAIN expressions}

Operators == {"+", "-", "*", "/"}

\* Expression.__init__
Expression__init__(operator, left, right) ==
  [operator |-> operator, left |-> left, right |-> right]

Expression_method_RsubAsSub(method, self, other) ==
  CASE method = "__add__" -> Expression__init__("+", self, other)
    [] method = "__radd__" -> Expression__init__("+", other, self)
    [] method = "__sub__" -> Expression__init__("-", self, other)
    [] method = "__rsub__" -> Expression__init__("-", self, other)
    [] method = "__mul__" -> Expression__init__("*", self, other)
    [] method = "__rmul__" -> Expression__init__("*", other, self)
    [] method = "__truediv__" -> Expression__init__("/", self, other)
    [] method = "__rtruediv__" -> Expression__init__("/", other, self)

\* self.__add__(other), self.__radd__(other), ...: the same in each class
Expression_method(method, self, other) ==
  CASE method = "__add__" -> Expression__init__("+", self, other)
    [] method = "__radd__" -> Expression__init__("+", other, self)
    [] method = "__sub__" -> Expression__init__("-", self, other)
    [] method = "__rsub__" -> Expression__init__("-", other, self)
    [] method = "__mul__" -> Expression__init__("*", self, other)
    [] method = "__rmul__" -> Expression__init__("*", other, self)
    [] method = "__truediv__" -> Expression__init__("/", self, other)
    [] method = "__rtruediv__" -> Expression__init__("/", other, self)

DirectMethod(operator) ==
  CASE operator = "+" -> "__add__" [] operator = "-" -> "__sub__"
    [] operator = "*" -> "__mul__" [] operator = "/" -> "__truediv__"

ReflectedMethod(operator) ==
  CASE operator = "+" -> "__radd__" [] operator = "-" -> "__rsub__"
    [] operator = "*" -> "__rmul__" [] operator = "/" -> "__rtruediv__"

\* left <operator> right as Python evaluates it: the left operand's method,
\* or the right operand's reflected method when the left one is a number
BinaryOp(operator, left, right) ==
  IF left.cls = "int" THEN Expression_method(ReflectedMethod(operator), right, left)
  ELSE Expression_method(DirectMethod(operator), left, right)

\* The caller of the operators: x = var("x") and x.d(1).
InitExpressions ==
  /\ variables = Variable_d(var(EmptyHeap, "x", None), 1, 1).variables
  /\ derivatives = Variable_d(var(EmptyHeap, "x", None), 1, 1).derivatives
  /\ orders = <<>>
  /\ ivp = <<>>
  /\ eqs = <<>>
  /\ op = "init"
  /\ result = Returned(None)
  /\ stages = <<>>
  /\ expressions = <<>>
  /\ args = NoArgs
  /\ calls = <<>>
  /\ integrator = NoIntegrator
  /\ arrays = <<>>
  /\ solutions = <<>>

Operands == VarRefs \cup DerivRefs \cup ExprRefs \cup {IntConst(2)}

\* e = left <operator> right
Compose(operator, left, right) ==
  /\ Len(expressions) < MaxExprs
  /\ expressions' = Append(expressions, BinaryOp(operator, left, right))
  /\ op' = "compose"
  /\ result' = Returned(<<ExprRef(Len(expressions) + 1)>>)
  /\ args' = [operator |-> operator, left |-> left, right |-> right]
  /\ UNCHANGED <<variables, derivatives, orders, ivp, eqs, stages, calls,
                 integrator, arrays, solutions>>

ComposeDirect ==
  \E operator \in Operators, left \in Operands \ {IntConst(2)}, right \in Operands :
    Compose(operator, left, right)

ComposeReflected ==
  \E operator \in Operators, right \in Operands \ {IntConst(2)} :
    Compose(operator, IntConst(2), right)

NextExpressions == ComposeDirect \/ ComposeReflected

SpecExpressions == InitExpressions /\ [][NextExpressions]_vars

(* C12: expression composition is purely functional: +, -, *, / on          *)
(* variables, derivative references and expressions, the reflected forms    *)
(* included, return a new Expression node whose operator, left and right    *)
(* operand are exactly the operation and the two operands in the order      *)
(* given, and leave every object that existed before unchanged.             *)
C12_ComposeFunctional ==
  [][op' = "compose" =>
       /\ Len(expressions') = Len(expressions) + 1
       /\ result'.kind = "return"
       /\ result'.value = <<ExprRef(Len(expressions'))>>
       /\ expressions'[Len(expressions')].operator = args'.operator
       /\ expressions'[Len(expressions')].left = args'.left
       /\ expressions'[Len(expressions')].right = args'.right
       /\ \A k \in DOMAIN expressions : expressions'[k] = expressions[k]
       /\ variables' = variables
       /\ derivatives' = derivatives]_vars

C12_Witness ==
  /\ op = "compose"
  /\ args.operator = "-"
  /\ args.left = IntConst(2)
  /\ args.right.cls = "Expression"
  /\ expressions[args.right.id].left.cls = "Derivative"

----------------------------------------------------------------------------
(* C13: a solve call with backend "scipy", an IVP that covers every level   *)
(* of every variable of the equations and a time span raises                *)
(* NotImplementedError, and nothing else.                                   *)
C13_ScipyNotImplemented ==
  (PassedValidation /\ args.backend = "scipy") => Raises("NotImplementedError")

----------------------------------------------------------------------------
\* errors.py and spec section 7: the typed errors of the library
TaxonomyErrors ==
  {"MissingInitialConditionError", "OverdeterminedConditionsError",
   "OrderMismatchError", "UnsolvableIsolation", "UnderOrOverdeterminedSystem",
   "CompilationError", "IntegrationFailure", "BackendError"}

ReturnsSolution ==
  /\ result.kind = "return"
  /\ result.value # <<>>
  /\ result.value[1] \in {"Solution", "SolutionExpr"}

----------------------------------------------------------------------------
(* What the stages of the last solve call did, told from its arguments.     *)

\* the analysis went through
Analyzed == op = "solve" /\ stages # <<>>

\* what the symbolic backend does with the caller's equations in this call
SymbolicOutcome == SymPyBackend_solve(eqs, args.dsolved)

\* the call went into the numeric branch with ivp and tspan
NumericEntered ==
  /\ Analyzed
  /\ \/ args.backend \in {"None", "scipy"}
     \/ args.backend = "auto" /\ SymbolicOutcome.kind = "raise"
  /\ args.withIvp
  /\ args.tspan # None

\* what validate_ivp does with the order map of this call and the caller's IVP
ValidationOutcome ==
  LET variables_ == CHOOSE l \in ListsOf(collect_variables(eqs)) : TRUE
  IN validate_ivp(resolve_orders(variables_, eqs).value, ivp)

(* C15 as stated: whenever a stage or backend invoked by a solve call       *)
(* raises, the error reaches the caller; here for the symbolic backend.     *)
C15_Original ==
  (Analyzed /\ args.backend \in {"auto", "sympy"} /\ SymbolicOutcome.kind = "raise")
    => result = SymbolicOutcome

(* C15: whenever the analysis, the IVP validation, a later stage of the     *)
(* numeric path or the symbolic backend called for backend "sympy" raises,  *)
(* that error ends the call and reaches the caller; the one error solve     *)
(* catches is that of the symbolic backend under backend "auto", after      *)
(* which the call goes on in the numeric branch.                            *)
C15_ErrorsReachCaller ==
  op = "solve" =>
    /\ ~Analyzed => Raises("OrderMismatchError")
    /\ (Analyzed /\ args.backend = "sympy" /\ SymbolicOutcome.kind = "raise")
         => result = SymbolicOutcome
    /\ (NumericEntered /\ ValidationOutcome.kind = "raise")
         => result = ValidationOutcome /\ stages = <<"analyze">>
    /\ (PassedValidation /\ args.failed # 0)
         => result.kind = "raise" /\ Len(stages) = args.failed + 1
    /\ (Analyzed /\ args.backend = "auto" /\ SymbolicOutcome.kind = "raise")
         => (NumericEntered \/ Raises("ValueError"))

C15_Witness ==
  /\ NumericEntered
  /\ args.backend = "auto"
  /\ Len(eqs) = 1
  /\ ValidationOutcome.kind = "raise"
  /\ Raises("MissingInitialConditionError")

----------------------------------------------------------------------------
IsPrefix(p, q) == Len(p) <= Len(q) /\ SubSeq(q, 1, Len(p)) = p

(* C16: on the numeric path the stages of one solve call run in the order   *)
(* analysis, IVP validation, state-map construction, highest-derivative     *)
(* isolation, IVP-to-state-vector conversion, compilation, integration,     *)
(* each only after the one before it completed without error: the stages a  *)
(* call completed are an initial part of that order, all of it exactly when *)
(* a Solution is returned, and a failed IVP validation leaves it at the     *)
(* analysis alone.                                                          *)
C16_StagesInOrder ==
  op = "solve" =>
    /\ IsPrefix(stages, <<"analyze", "validate", "state_map", "isolate",
                          "ivp_to_state", "compile", "integrate">>)
    /\ (NumericEntered /\ ValidationOutcome.kind = "raise") => stages = <<"analyze">>
    /\ (result.kind = "return" /\ result.value[1] = "Solution") <=> Len(stages) = 7
    /\ (result.kind = "raise" /\ Len(stages) >= 2) => args.failed = Len(stages) - 1

C16_Witness ==
  /\ NumericEntered
  /\ args.backend = "scipy"
  /\ ValidationOutcome.kind = "raise"
  /\ Raises("OverdeterminedConditionsError")

----------------------------------------------------------------------------
\* api.py, the scipy branch: the values solve hands to each stage it calls
StageArguments(stage) ==
  CASE stage = "state_map" -> {"orders"}
    [] stage = "isolate" -> {"eqs", "orders"}
    [] stage = "ivp_to_state" -> {"ivp", "mapping"}
    [] stage = "compile" -> {"f_sym_vec", "t.symbol", "state_syms"}
    [] stage = "integrate" ->
         {"f_compiled", "jac_compiled", "x0", "t0", "tspan", "mapping", "options"}
    [] OTHER -> {}

\* the stages that work with state slots
SlotStages == {"isolate", "ivp_to_state", "compile", "integrate"}

(* C17: within one solve call the state map is built once and that same     *)
(* mapping is what every later stage is handed: each of the isolator, the   *)
(* IVP conversion, the compiler and the integrator that ran received it.    *)
C17_SameMappingHanded ==
  op = "solve" =>
    \A i \in DOMAIN stages :
      stages[i] \in SlotStages => "mapping" \in StageArguments(stages[i])

----------------------------------------------------------------------------
(* backends/sympy_backend.py called directly: the caller builds a list of  *)
(* equations over x and z and hands it to SymPyBackend().solve.            *)

MaxEqs == 2

InitSymPy ==
  /\ variables = SolveHeap(None, None).variables
  /\ derivatives = SolveHeap(None, None).derivatives
  /\ orders = <<>>
  /\ ivp = <<>>
  /\ eqs = <<>>
  /\ op = "init"
  /\ result = Returned(None)
  /\ stages = <<>>
  /\ expressions = <<>>
  /\ args = NoArgs
  /\ calls = <<>>
  /\ integrator = NoIntegrator
  /\ arrays = <<>>
  /\ solutions = <<>>

\* the variables and derivative references the caller writes equations in
Leaves == {VarRef(1), DerivRef(1), VarRef(2)}

\* equations.append(Eq(...))
AppendEquation ==
  \E leaves \in SUBSET Leaves :
    /\ Len(eqs) < MaxEqs
    /\ eqs' = Append(eqs, Eq(leaves))
    /\ op' = "append"
    /\ result' = Returned(None)
    /\ args' = NoArgs
    /\ UNCHANGED <<variables, derivatives, orders, ivp, stages, expressions, calls,
                 integrator, arrays, solutions>>

\* SymPyBackend().solve(equations, t.symbol)
SymPyBackend_solve_call ==
  \E behaviour \in SymPyBehaviours :
    /\ op' = "SymPyBackend.solve"
    /\ result' = SymPyBackend_solve_with(eqs, behaviour)
    /\ args' = [behaviour |-> behaviour]
    /\ UNCHANGED <<variables, derivatives, orders, ivp, eqs, stages, expressions, calls,
                 integrator, arrays, solutions>>

NextSymPy == AppendEquation \/ SymPyBackend_solve_call

SpecSymPy == InitSymPy /\ [][NextSymPy]_vars

(* C18: SymPyBackend.solve either returns a SolutionExpr or raises          *)
(* BackendError, whatever it is called with and whatever fails inside it.   *)
C18_SolutionExprOrBackendError ==
  op = "SymPyBackend.solve" =>
    \/ result.kind = "return" /\ result.value # <<>> /\ result.value[1] = "SolutionExpr"
    \/ Raises("BackendError")

C18_Witness ==
  /\ op = "SymPyBackend.solve"
  /\ Len(eqs) = 1
  /\ args.behaviour = "sympy_raises"
  /\ Raises("BackendError")

(* C19: the symbolic path accepts only a single equation in a single        *)
(* variable: with no or several equations, or one equation in no or         *)
(* several variables, SymPyBackend.solve raises BackendError, and a         *)
(* SolutionExpr it returns holds the solution of exactly one variable, the  *)
(* one of the equation.                                                     *)
C19_SingleEquationSingleVariable ==
  op = "SymPyBackend.solve" =>
    /\ Len(eqs) # 1 => Raises("BackendError")
    /\ Cardinality(collect_variables(eqs)) # 1 => Raises("BackendError")
    /\ result.kind = "return" =>
         /\ Len(result.value[2]) = 1
         /\ collect_variables(eqs) = {result.value[2][1][1].id}

C19_Witness ==
  /\ op = "SymPyBackend.solve"
  /\ Len(eqs) = 1
  /\ Cardinality(collect_variables(eqs)) = 2
  /\ args.behaviour = "ok"
  /\ Raises("BackendError")

----------------------------------------------------------------------------
(* Two solve calls made from two threads on the same variables and the     *)
(* same IVP dict, api.py run statement by statement.  A call's locals      *)
(* (backend, orders, the stages it completed, its outcome) are its record  *)
(* in calls; the heaps, the equations and the IVP are shared.  Thread th   *)
(* solves the equation eqs[th].                                            *)

Threads == {1, 2}

IdleCall ==
  [pc |-> "idle", backend |-> "", dsolved |-> TRUE, failed |-> 0,
   orders |-> <<>>, outcome |-> Returned(None), stages |-> <<>>]

InitConcurrent ==
  /\ variables = SolveHeap(None, None).variables
  /\ derivatives = SolveHeap(None, None).derivatives
  /\ \E a, b \in 1 .. MaxOrder :
       eqs = <<Eq({VarRef(1), DerivRef(a)}), Eq({VarRef(1), DerivRef(b)})>>
  /\ orders = <<>>
  /\ ivp = <<>>
  /\ op = "init"
  /\ result = Returned(None)
  /\ stages = <<>>
  /\ expressions = <<>>
  /\ args = NoArgs
  /\ calls = [th \in Threads |-> IdleCall]
  /\ integrator = NoIntegrator
  /\ arrays = <<>>
  /\ solutions = <<>>

\* the equation list and list(variables) of thread th's call
EqsOf(th) == <<eqs[th]>>
VariablesOf(th) == CHOOSE l \in ListsOf(collect_variables(EqsOf(th))) : TRUE

\* The caller fills the IVP before it starts the threads.
FillIvp ==
  /\ \A th \in Threads : calls[th].pc = "idle"
  /\ \E key \in {VarRef(1)} \cup {DerivRef(k) : k \in 1 .. MaxOrder} :
       /\ \A i \in DOMAIN ivp : PyId(ivp[i][1]) < PyId(key)
       /\ IvpSetItem(key, 1)

Step(th, call) ==
  /\ calls' = [calls EXCEPT ![th] = call]
  /\ op' = "solve_step"
  /\ UNCHANGED <<variables, derivatives, orders, ivp, eqs, result, stages,
                 expressions, args,
                 integrator, arrays, solutions>>

Done(call, outcome, done) ==
  [call EXCEPT !.pc = "done", !.outcome = outcome, !.stages = done]

\* thread th enters solve(eqs[th], ivp=ivp, tspan=(0, 1), backend=backend)
Call_start(th) ==
  /\ calls[th].pc = "idle"
  /\ \E backend \in {"scipy", "auto"}, failed \in {0, 5} :
       \E dsolved \in IF backend = "auto" THEN BOOLEAN ELSE {TRUE} :
         Step(th, [calls[th] EXCEPT !.pc = "analyze", !.backend = backend,
                                    !.dsolved = dsolved, !.failed = failed])

Call_analyze_ProcessWideOrders(th) ==
  /\ calls[th].pc = "analyze"
  /\ LET resolved == resolve_orders(VariablesOf(th), EqsOf(th))
     IN /\ calls' =
             [c \in Threads |->
                IF c = th
                THEN IF resolved.kind = "raise" THEN Done(calls[th], resolved, <<>>)
                     ELSE [calls[th] EXCEPT
                             !.orders = resolved.value,
                             !.stages = <<"analyze">>,
                             !.pc = IF calls[th].backend = "auto"
                                    THEN "symbolic" ELSE "numeric"]
                ELSE IF resolved.kind = "return" /\ calls[c].pc \in {"symbolic", "numeric"}
                THEN [calls[c] EXCEPT !.orders = resolved.value]
                ELSE calls[c]]
        /\ op' = "solve_step"
        /\ UNCHANGED <<variables, derivatives, orders, ivp, eqs, result, stages,
                       expressions, args,
                 integrator, arrays, solutions>>

\* Step 1: orders = resolve_orders(...), then the routing on backend
Call_analyze(th) ==
  /\ calls[th].pc = "analyze"
  /\ LET resolved == resolve_orders(VariablesOf(th), EqsOf(th))
     IN Step(th, IF resolved.kind = "raise" THEN Done(calls[th], resolved, <<>>)
                 ELSE [calls[th] EXCEPT
                         !.orders = resolved.value,
                         !.stages = <<"analyze">>,
                         !.pc = IF calls[th].backend = "auto"
                                THEN "symbolic" ELSE "numeric"])

\* backend == "auto": the symbolic attempt and its except clause
Call_symbolic(th) ==
  /\ calls[th].pc = "symbolic"
  /\ LET symbolic == SymPyBackend_solve(EqsOf(th), calls[th].dsolved)
     IN Step(th, IF symbolic.kind = "raise"
                 THEN [calls[th] EXCEPT !.pc = "numeric"]
                 ELSE Done(calls[th], symbolic, calls[th].stages))

\* backend == "scipy": validation and the stages after it, on the call's
\* own order map and the shared IVP
Call_numeric(th) ==
  /\ calls[th].pc = "numeric"
  /\ LET run == solve_scipy(calls[th].orders, Some(ivp), Some(<<0, 1>>),
                            calls[th].failed)
     IN Step(th, Done(calls[th], run.outcome, run.stages))

Start == \E th \in Threads : Call_start(th)
Analyze == \E th \in Threads : Call_analyze(th)
Symbolic == \E th \in Threads : Call_symbolic(th)
Numeric == \E th \in Threads : Call_numeric(th)

NextConcurrent == FillIvp \/ Start \/ Analyze \/ Symbolic \/ Numeric

SpecConcurrent == InitConcurrent /\ [][NextConcurrent]_vars

\* what thread th's call gives when it runs alone, as one whole call
OutcomeAlone(th) ==
  solve(EqsOf(th), VariablesOf(th), Some(ivp), Some(<<0, 1>>),
        calls[th].backend, calls[th].dsolved, calls[th].failed)

(* C20: two solve calls interleaved from two threads share no mutable       *)
(* state: however their steps interleave, each call that has ended has the  *)
(* outcome, and has completed the stages, it has when it runs alone.        *)
C20_OutcomeAsAlone ==
  \A th \in DOMAIN calls :
    calls[th].pc = "done" =>
      /\ calls[th].outcome = OutcomeAlone(th).outcome
      /\ calls[th].stages = OutcomeAlone(th).stages

C20_Witness ==
  /\ DOMAIN calls = Threads
  /\ calls[1].pc = "done"
  /\ calls[1].outcome.kind = "return"
  /\ calls[2].pc = "numeric"
  /\ calls[2].orders # calls[1].orders

----------------------------------------------------------------------------
(* The order map and the state vector of a numeric solve, read off the      *)
(* Solution it returned.                                                    *)

ReturnsNumericSolution ==
  op = "solve" /\ result.kind = "return" /\ result.value[1] = "Solution"

SolutionMapping == result.value[2]
SolutionX0 == result.value[3]

\* the levels of variable v that have a slot in the mapping
MappedLevels(mapping, v) ==
  {mapping[i][1][2] : i \in {j \in DOMAIN mapping : mapping[j][1][1] = VarRef(v)}}

\* the derivative levels the equations refer to v at (a bare variable is level 0)
ReferencedLevels(v) ==
  {KeyLevel(leaf) : leaf \in {l \in UNION {eqs[i].leaves : i \in DOMAIN eqs} : KeyVar(l) = v}}

HighestReferenced(v) == CHOOSE m \in ReferencedLevels(v) : \A n \in ReferencedLevels(v) : n <= m

\* the order the call works with: the declared one where there is one
WorkingOrder(v) ==
  IF variables[v].intent_order = None THEN HighestReferenced(v)
  ELSE variables[v].intent_order[1]

RECURSIVE Sum(_, _)
Sum(f, S) ==
  IF S = {} THEN 0
  ELSE LET x == CHOOSE y \in S : TRUE IN f[x] + Sum(f, S \ {x})

----------------------------------------------------------------------------
\* the variables of the equations declared with an order below the one used
Mismatched ==
  {v \in collect_variables(eqs) :
     /\ variables[v].intent_order # None
     /\ variables[v].intent_order[1] < HighestReferenced(v)}

(* C22: order reconciliation: when a variable's declared order is lower     *)
(* than the highest derivative order the equations use for it, the solve    *)
(* call fails with OrderMismatch for such a variable; otherwise a declared  *)
(* order is accepted and is the order the call works with: the call gets   *)
(* past IVP validation only with exactly the levels below the declared     *)
(* order supplied.                                                         *)
C22_OrderReconciliation ==
  op = "solve" =>
    /\ Mismatched # {} => Raises("OrderMismatchError") /\ result.var \in Mismatched
    /\ Mismatched = {} =>
         /\ ~Raises("OrderMismatchError")
         /\ \A v \in collect_variables(eqs) :
              (variables[v].intent_order # None /\ PassedValidation)
                => LevelsSupplied(v) = 0 .. (variables[v].intent_order[1] - 1)

C22_Witness ==
  /\ PassedValidation
  /\ variables[1].intent_order = Some(2)
  /\ HighestReferenced(1) = 1
  /\ args.failed = 4

----------------------------------------------------------------------------
(* reduce.build_state_map called on an order map the caller fills for       *)
(* three variables.                                                        *)

InitStateMap ==
  /\ variables = var(var(var(EmptyHeap, "x", None), "y", None), "z", None).variables
  /\ derivatives = <<>>
  /\ orders = <<>>
  /\ ivp = <<>>
  /\ eqs = <<>>
  /\ op = "init"
  /\ result = Returned(None)
  /\ stages = <<>>
  /\ expressions = <<>>
  /\ args = NoArgs
  /\ calls = <<>>
  /\ integrator = NoIntegrator
  /\ arrays = <<>>
  /\ solutions = <<>>

\* mapping = build_state_map(orders)
build_state_map_call ==
  /\ op' = "build_state_map"
  /\ result' = Returned(<<"mapping", build_state_map(orders)>>)
  /\ UNCHANGED <<variables, derivatives, orders, ivp, eqs, stages, expressions,
                 args, calls,
                 integrator, arrays, solutions>>

NextStateMap == SetOrders \/ build_state_map_call

SpecStateMap == InitStateMap /\ [][NextStateMap]_vars

\* the (variable, level) pairs with level in 0 .. order-1, and their number N
Triples ==
  UNION {{<<orders[i][1], level>> : level \in 0 .. (orders[i][2] - 1)} : i \in DOMAIN orders}
StateSize == Sum([i \in DOMAIN orders |-> orders[i][2]], DOMAIN orders)

(* C23: the state map is a bijection between the (variable, level) pairs    *)
(* with level in 0..order-1 and the indices 0..N-1: its keys are exactly    *)
(* these pairs, its indices exactly 0..N-1, no two pairs share an index,    *)
(* and for every index i in [0, N) the index of the pair of i is i again.   *)
C23_StateMapBijection ==
  op = "build_state_map" =>
    LET mapping == result.value[2]
    IN /\ {mapping[i][1] : i \in DOMAIN mapping} = Triples
       /\ {mapping[i][2] : i \in DOMAIN mapping} = 0 .. (StateSize - 1)
       /\ \A i, j \in DOMAIN mapping :
            (mapping[i][2] = mapping[j][2] \/ mapping[i][1] = mapping[j][1]) => i = j
       /\ \A index \in 0 .. (StateSize - 1) :
            StateIndex(mapping, StateTriple(mapping, index)) = index
       /\ \A triple \in Triples :
            StateTriple(mapping, StateIndex(mapping, triple)) = triple

C23_Witness ==
  /\ op = "build_state_map"
  /\ Len(orders) = 3
  /\ orders[1][2] = 2
  /\ orders[2][2] = 0
  /\ orders[3][2] = 1
  /\ Len(result.value[2]) = 3

----------------------------------------------------------------------------
(* The integrator behind ScipyIVPBackend.solve: an adaptive step loop from  *)
(* t0 = 0 to tf.  Times and step sizes are whole numbers of the smallest    *)
(* time unit.  Whether the error estimate of a step is within tolerance is  *)
(* up to f, so both outcomes are possible at every step.                    *)

MaxT == 8
MaxStep == 4
MinStep == 1

Min2(a, b) == IF a <= b THEN a ELSE b

InitIntegrator ==
  /\ variables = <<>>
  /\ derivatives = <<>>
  /\ orders = <<>>
  /\ ivp = <<>>
  /\ eqs = <<>>
  /\ op = "init"
  /\ result = Returned(None)
  /\ stages = <<>>
  /\ expressions = <<>>
  /\ args = NoArgs
  /\ calls = <<>>
  /\ \E tf \in 1 .. MaxT, h \in MinStep .. MaxStep :
       integrator = [t |-> 0, tf |-> tf, h |-> h, status |-> "running"]
  /\ arrays = <<>>
  /\ solutions = <<>>

IntegratorStep(next) ==
  /\ integrator' = next
  /\ op' = "step"
  /\ UNCHANGED <<variables, derivatives, orders, ivp, eqs, result, stages,
                 expressions, args, calls, arrays, solutions>>

\* the error estimate is within tolerance: the step, clipped to land on tf,
\* is taken, and the next step size is kept or grown
Integrator_accept ==
  /\ integrator.status = "running"
  /\ LET t == integrator.t + Min2(integrator.h, integrator.tf - integrator.t)
     IN \E h \in {integrator.h, Min2(2 * integrator.h, MaxStep)} :
          IntegratorStep([integrator EXCEPT
                            !.t = t,
                            !.h = h,
                            !.status = IF t = integrator.tf THEN "success" ELSE "running"])

Integrator_reject_ResetsStep ==
  /\ integrator.status = "running"
  /\ IntegratorStep(IF integrator.h \div 2 < MinStep
                    THEN [integrator EXCEPT !.h = MaxStep]
                    ELSE [integrator EXCEPT !.h = integrator.h \div 2])

\* the error estimate is too large: the step is retried with half the size,
\* and the integration fails when that is below the minimum
Integrator_reject ==
  /\ integrator.status = "running"
  /\ IntegratorStep(IF integrator.h \div 2 < MinStep
                    THEN [integrator EXCEPT !.status = "failed"]
                    ELSE [integrator EXCEPT !.h = integrator.h \div 2])

NextIntegrator == Integrator_accept \/ Integrator_reject

\* The loop is sequential code: while it is running it takes its next step.
SpecIntegrator ==
  InitIntegrator /\ [][NextIntegrator]_vars /\ WF_vars(NextIntegrator)

(* C24: the integrator's accept/reject step loop always terminates: it       *)
(* never steps past tf, and eventually either the integration has reached   *)
(* tf or the integrator has failed because the step size fell below its     *)
(* minimum.                                                                 *)
C24_IntegratorTerminates ==
  /\ [](integrator.t <= integrator.tf)
  /\ <>(\/ integrator.status = "success" /\ integrator.t = integrator.tf
        \/ integrator.status = "failed" /\ integrator.h \div 2 < MinStep)

C24_Witness ==
  /\ integrator # NoIntegrator
  /\ integrator.status = "failed"
  /\ integrator.t > 0
  /\ integrator.t < integrator.tf

----------------------------------------------------------------------------
(* solution.py: Solution.  The caller makes arrays, builds Solution         *)
(* objects from them (or from the defaults), writes to its arrays and       *)
(* calls the Solution's methods.  An array is held by its contents; a      *)
(* reference to it is its index in the heap arrays.                        *)

MaxArrays == 2
MaxSolutions == 1

\* Solution.__init__(t_values, y_values): the new object and the heap of
\* arrays after it (np.array([]) and {} are fresh objects)
Solution__init__(arrays_, t_values, y_values) ==
  LET withT == IF t_values # None THEN arrays_ ELSE Append(arrays_, <<>>)
      t == IF t_values # None THEN t_values[1] ELSE Len(withT)
      withY == IF y_values # None THEN withT ELSE Append(withT, <<>>)
      y == IF y_values # None THEN y_values[1] ELSE Len(withY)
  IN [arrays |-> withY, self |-> [t |-> t, _y_values |-> y]]

\* Solution.__getitem__, as_first_order, as_expr
Solution__getitem__(self, variable) == Raised("NotImplementedError", "", 0, 0, 0)
Solution_as_first_order(self) == Raised("NotImplementedError", "", 0, 0, 0)
Solution_as_expr(self, variable) == Raised("NotImplementedError", "", 0, 0, 0)

InitSolution ==
  /\ variables = SolveHeap(Some(2), None).variables
  /\ derivatives = SolveHeap(Some(2), None).derivatives
  /\ orders = <<>>
  /\ ivp = <<>>
  /\ eqs = <<>>
  /\ op = "init"
  /\ result = Returned(None)
  /\ stages = <<>>
  /\ expressions = <<>>
  /\ args = NoArgs
  /\ calls = <<>>
  /\ integrator = NoIntegrator
  /\ arrays = <<>>
  /\ solutions = <<>>

\* a = np.array([1])
NewArray ==
  /\ Len(arrays) < MaxArrays
  /\ arrays' = Append(arrays, <<1>>)
  /\ op' = "np.array"
  /\ result' = Returned(<<Len(arrays) + 1>>)
  /\ args' = NoArgs
  /\ UNCHANGED <<variables, derivatives, orders, ivp, eqs, stages, expressions,
                 calls, integrator, solutions>>

\* a[i] = v
ArrayWrite ==
  \E a \in DOMAIN arrays, v \in Values :
    \E i \in DOMAIN arrays[a] :
      /\ arrays' = [arrays EXCEPT ![a][i] = v]
      /\ op' = "array_setitem"
      /\ result' = Returned(None)
      /\ args' = NoArgs
      /\ UNCHANGED <<variables, derivatives, orders, ivp, eqs, stages, expressions,
                     calls, integrator, solutions>>

ArrayArguments == {None} \cup {Some(a) : a \in DOMAIN arrays}

\* sol = Solution(t_values, y_values)
Solution_call ==
  \E t_values \in ArrayArguments, y_values \in ArrayArguments :
    /\ Len(solutions) < MaxSolutions
    /\ arrays' = Solution__init__(arrays, t_values, y_values).arrays
    /\ solutions' = Append(solutions, Solution__init__(arrays, t_values, y_values).self)
    /\ op' = "Solution"
    /\ result' = Returned(<<Len(solutions) + 1>>)
    /\ args' = [t_values |-> t_values, y_values |-> y_values]
    /\ UNCHANGED <<variables, derivatives, orders, ivp, eqs, stages, expressions,
                   calls, integrator>>

SolutionKeys == {VarRef(1)} \cup {DerivRef(k) : k \in 1 .. MaxOrder}

\* sol[key]
Solution_getitem_call ==
  \E self \in DOMAIN solutions, key \in SolutionKeys :
    /\ op' = "Solution.__getitem__"
    /\ result' = Solution__getitem__(self, key)
    /\ args' = [self |-> self, key |-> key]
    /\ UNCHANGED <<variables, derivatives, orders, ivp, eqs, stages, expressions,
                   calls, integrator, arrays, solutions>>

\* sol.as_first_order(), sol.as_expr(key)
Solution_other_call ==
  \E self \in DOMAIN solutions :
    /\ \/ op' = "Solution.as_first_order" /\ result' = Solution_as_first_order(self)
       \/ op' = "Solution.as_expr" /\ result' = Solution_as_expr(self, VarRef(1))
    /\ args' = NoArgs
    /\ UNCHANGED <<variables, derivatives, orders, ivp, eqs, stages, expressions,
                   calls, integrator, arrays, solutions>>

NextSolution ==
  NewArray \/ ArrayWrite \/ Solution_call \/ Solution_getitem_call \/ Solution_other_call

SpecSolution == InitSolution /\ [][NextSolution]_vars

(* C25: indexing a Solution with a variable or derivative reference at a    *)
(* level below the variable's order returns the trajectory rows of that     *)
(* level, and indexing at a level greater than or equal to the order fails  *)
(* with an out-of-range error.                                              *)
C25_IndexingByLevel ==
  op = "Solution.__getitem__" =>
    IF KeyLevel(args.key) < variables[KeyVar(args.key)].intent_order[1]
    THEN result.kind = "return"
    ELSE result.kind = "raise" /\ result.exc \in {"IndexError", "KeyError", "ValueError"}

\* what a Solution holds: the contents of its time grid and of its trajectory
Held(s) == [t |-> arrays[solutions[s].t], y |-> arrays[solutions[s]._y_values]]

(* C26: a Solution is never mutated after construction and owns its data    *)
(* exclusively: no step after it is built, a method of the Solution or a    *)
(* write by the caller to an array it passed to the constructor, changes    *)
(* the time grid or the trajectory the Solution holds.                      *)
C26_SolutionOwnsData ==
  [][\A s \in DOMAIN solutions : Held(s)' = Held(s)]_vars

----------------------------------------------------------------------------
\* the runs of the caller's call with its backend argument replaced by
\* another one, over the orders list(variables) can come in
RunsWithBackend(backend) ==
  {solve(eqs, variables_, IF args.withIvp THEN Some(ivp) ELSE None, args.tspan,
         backend, args.dsolved, args.failed) :
     variables_ \in ListsOf(collect_variables(eqs))}

\* this call ended as the same call with that backend ends
EndedAsWithBackend(backend) ==
  \E run \in RunsWithBackend(backend) : result = run.outcome /\ stages = run.stages

(* C27: with backend None or "scipy" and analysis passed, a call without    *)
(* an IVP raises the ValueError about the missing IVP, also when tspan is   *)
(* missing too, a call with an IVP and without tspan raises the ValueError  *)
(* about tspan, in both cases no stage after analysis has run, and a call   *)
(* with backend None ends as the same call with backend "scipy".            *)
C27_MissingArgumentsInOrder ==
  (Analyzed /\ args.backend \in {"None", "scipy"}) =>
    /\ ~args.withIvp =>
         /\ result = Raised("ValueError", "IVP conditions required", 0, 0, 0)
         /\ stages = <<"analyze">>
    /\ (args.withIvp /\ args.tspan = None) =>
         /\ result = Raised("ValueError", "tspan required", 0, 0, 0)
         /\ stages = <<"analyze">>
    /\ args.backend = "None" => EndedAsWithBackend("scipy")

C27_Witness ==
  /\ Analyzed
  /\ args.backend = "None"
  /\ ~args.withIvp
  /\ args.tspan = None
  /\ result = Raised("ValueError", "IVP conditions required", 0, 0, 0)
  /\ stages = <<"analyze">>

(* C28: with backend "auto" and analysis passed, the call returns the       *)
(* symbolic solution when the symbolic backend succeeds; when it fails the  *)
(* call ends as the same call with backend "scipy" ends, and the symbolic   *)
(* backend's error is not the one raised.                                   *)
C28_AutoFallsBackToScipy ==
  (Analyzed /\ args.backend = "auto") =>
    IF SymbolicOutcome.kind = "return"
    THEN result = SymbolicOutcome
    ELSE EndedAsWithBackend("scipy") /\ result # SymbolicOutcome

C28_Witness ==
  /\ Analyzed
  /\ args.backend = "auto"
  /\ SymbolicOutcome.kind = "raise"
  /\ Raises("MissingInitialConditionError")
  /\ stages = <<"analyze">>

----------------------------------------------------------------------------
(* C29: validate_ivp reports the first failure only: when some variable of  *)
(* the order map is not exactly covered by the IVP (its keys all variables  *)
(* or derivative references), the error raised is about the first such      *)
(* variable in the order map's iteration order, and it is                   *)
(* MissingInitialCondition when that variable lacks a level, also when it   *)
(* has a level outside its range as well, and OverdeterminedConditions      *)
(* otherwise.                                                               *)
C29_FirstFailureOnly ==
  (Validated /\ AllKeysSymbols /\ ~ExactCoverage) =>
    /\ result.kind = "raise"
    /\ result.var = orders[FirstUncovered][1].id
    /\ result.order = orders[FirstUncovered][2]
    /\ result.exc = IF LacksLevel(FirstUncovered)
                    THEN "MissingInitialConditionError"
                    ELSE "OverdeterminedConditionsError"

\* two variables fail, the first with a level outside its range and none
\* lacking, the second lacking a level
C29_Witness ==
  /\ Validated /\ AllKeysSymbols
  /\ Len(orders) = 2
  /\ HasOutsideLevel(1) /\ ~LacksLevel(1)
  /\ LacksLevel(2)
  /\ Raises("OverdeterminedConditionsError")
  /\ result.var = orders[1][1].id

----------------------------------------------------------------------------
\* the reference the cache of variable v holds under n
Cached(v, n) == DerivRef(IntDictGet(variables[v]._derivatives, n))

(* C30: derivative references are memoised per variable.  In every step:    *)
(* no cache entry is removed or replaced and no Derivative object changes;  *)
(* every cached reference has the variable whose cache it is in and the     *)
(* order it is cached under; y.d(n) returns the reference cached under n,   *)
(* the one of the earlier call when there was one, and leaves the other     *)
(* variables as they were; y.d(n).d(m) returns the reference y.d(n + m)     *)
(* returns, the cached one when there is one.                               *)
C30_DerivativesMemoised ==
  [][/\ \A v \in DOMAIN variables : \A i \in DOMAIN variables[v]._derivatives :
          /\ i \in DOMAIN variables'[v]._derivatives
          /\ variables'[v]._derivatives[i] = variables[v]._derivatives[i]
     /\ \A d \in DOMAIN derivatives :
          d \in DOMAIN derivatives' /\ derivatives'[d] = derivatives[d]
     /\ \A v \in DOMAIN variables' : \A i \in DOMAIN variables'[v]._derivatives :
          LET entry == variables'[v]._derivatives[i]
          IN /\ entry[2] \in DOMAIN derivatives'
             /\ derivatives'[entry[2]].variable = v
             /\ derivatives'[entry[2]].order = entry[1]
     /\ op' \in {"Variable.d", "Derivative.d"} =>
          LET v == IF op' = "Variable.d" THEN args'.self.id
                   ELSE derivatives[args'.self.id].variable
              n == IF op' = "Variable.d" THEN args'.n
                   ELSE derivatives[args'.self.id].order + args'.n
          IN /\ IntDictHas(variables'[v]._derivatives, n)
             /\ result' = Returned(<<DerivRef(IntDictGet(variables'[v]._derivatives, n))>>)
             /\ IntDictHas(variables[v]._derivatives, n) =>
                  /\ result' = Returned(<<Cached(v, n)>>)
                  /\ variables' = variables
                  /\ derivatives' = derivatives
             /\ \A w \in DOMAIN variables : w # v => variables'[w] = variables[w]
    ]_vars

\* y.d(1).d(1) has returned the reference cached under 2, next to y.d(1)
C30_Witness ==
  /\ op = "Derivative.d"
  /\ args.n = 1
  /\ derivatives[args.self.id].order = 1
  /\ result.value = <<Cached(derivatives[args.self.id].variable, 2)>>
  /\ result.value[1] # args.self
  /\ Cached(derivatives[args.self.id].variable, 1) = args.self

====
